---- MODULE Spec2Model ----
(***************************************************************************)
(* The Manager of pyacq (pyacq/core/manager.py): the registry of Hosts,    *)
(* Nodegroups and Nodes and the handlers that read and change it.          *)
(*                                                                         *)
(* Python objects are referred to by the key they are registered under:    *)
(* a _Host by its name in self.hosts, a _NodeGroup by its name in          *)
(* self.nodegroups.  That is exact here because the Manager never removes  *)
(* or overwrites an entry of self.hosts or self.nodegroups (the two pops   *)
(* of disconnect_host are never reached, see disconnect_host below).       *)
(* A _Node is immutable after construction and is modelled by value.       *)
(*                                                                         *)
(* An exception is modelled by the field err of the handler's outcome:     *)
(*   "ConflictError"  the explicit  raise KeyError("... already exists")   *)
(*   "NotFoundError"  the KeyError of a failed dict lookup                 *)
(*   "RemoteError"    an exception raised by a call on an RPCClient        *)
(*   "TypeError"      iterating an object that is not iterable             *)
(***************************************************************************)
EXTENDS Integers, Sequences, FiniteSets, TLC

VARIABLES hosts, nodegroups, nodes, default_host, spawned, server_closed,
          next_nodegroup_name, next_node_name, last, roundtrip, threads,
          connected, suggested

vars == <<hosts, nodegroups, nodes, default_host, spawned, server_closed,
          next_nodegroup_name, next_node_name, last, roundtrip, threads,
          connected, suggested>>

counters == <<next_nodegroup_name, next_node_name, suggested>>

registry == <<hosts, nodegroups, nodes>>

(***************************************************************************)
(* Bounds of the model and the inputs the handlers are called with.        *)
(***************************************************************************)
NumNodes == 2

\* How many names each of suggest_nodegroup_name and suggest_node_name is asked for.
MaxSuggest == 2

NodeNames == {"node-" \o ToString(i) : i \in 0..(NumNodes - 1)}

NodegroupNames == {"nodegroup-0", "nodegroup-1"}

DefaultHostName == "default-host"

HostNames == {DefaultHostName, "h1"}

ClassNames == {"Acquirer"}

Methods == {"start"}

Results == {"ok"}

Threads == {"t1", "t2"}

\* An address 'tcp://127.0.0.1:5000' as its tokens.
Addr(hostname, port) == <<"tcp", ":", "//", hostname, ":", port>>

ManagerAddr == Addr("127.0.0.1", "4000")

Addrs == {Addr("10.0.0.2", "5000")}

None == <<>>

(***************************************************************************)
(* dict and str helpers.                                                   *)
(***************************************************************************)
Put(d, k, v) == [x \in (DOMAIN d) \cup {k} |-> IF x = k THEN v ELSE d[x]]

Del(d, k) == [x \in (DOMAIN d) \ {k} |-> d[x]]

EmptyDict == [x \in {} |-> None]

Positions(s, sep) == {i \in 1..Len(s) : s[i] = sep}

Min(S) == CHOOSE x \in S : \A y \in S : x <= y

Max(S) == CHOOSE x \in S : \A y \in S : x >= y

\* str.partition(sep): split at the first occurrence of sep.
partition(s, sep) ==
    IF Positions(s, sep) = {} THEN <<s, <<>>, <<>>>>
    ELSE LET i == Min(Positions(s, sep))
         IN <<SubSeq(s, 1, i - 1), <<sep>>, SubSeq(s, i + 1, Len(s))>>

\* str.rpartition(sep): split at the last occurrence of sep.
rpartition(s, sep) ==
    IF Positions(s, sep) = {} THEN <<<<>>, <<>>, s>>
    ELSE LET i == Max(Positions(s, sep))
         IN <<SubSeq(s, 1, i - 1), <<sep>>, SubSeq(s, i + 1, Len(s))>>

(***************************************************************************)
(* The bookkeeping classes.                                                *)
(***************************************************************************)
\* _Host.__init__
_Host(name, addr) ==
    [rpc_address |-> addr,
     rpc_name |-> name,
     nodegroups |-> {},
     rpc_hostname |-> rpartition(partition(addr, "//")[3], ":")[1]]

\* _NodeGroup.__init__
_NodeGroup(host, name, addr) ==
    [host |-> host, rpc_address |-> addr, rpc_name |-> name, nodes |-> EmptyDict]

\* _Node.__init__
_Node(nodegroup, name, classname) ==
    [nodegroup |-> nodegroup, name |-> name, classname |-> classname, outputs |-> <<>>]

(***************************************************************************)
(* The external collaborators, as far as the Manager sees them.            *)
(***************************************************************************)
\* The port an agent binds when it is given a wildcard address.
ResolvedPort == [n \in NodegroupNames \cup {DefaultHostName} |->
                   CASE n = DefaultHostName -> "5001"
                     [] n = "nodegroup-0" -> "6000"
                     [] OTHER -> "6001"]

\* An address template with its wildcard port bound.
Resolve(addr, name) == [i \in 1..Len(addr) |-> IF addr[i] = "*" THEN ResolvedPort[name] ELSE addr[i]]

\* ProcessSpawner(Host, name=..., addr=...): the process, with the name and the
\* address it reports.
ProcessSpawner(name, addr) == [name |-> name, addr |-> Resolve(addr, name)]

\* A remote call on an RPCClient.
Call(kind, agent, method) == [kind |-> kind, agent |-> agent, method |-> method]

(***************************************************************************)
(* What a handler's caller sees: the handler run last, its arguments, the  *)
(* exception it raised, the remote calls it issued in order, and what it   *)
(* returned (a list of names, a (name, address) pair or a remote result).  *)
(***************************************************************************)
NoneArg == "None"

\* A handler's outcome from the current state: the exception, the remote calls
\* issued, the registries it leaves and the value it returns; answer is what the
\* agent of a control_node call answered.
Result(err, calls) ==
    [err |-> err, calls |-> calls,
     hosts |-> hosts, nodegroups |-> nodegroups, nodes |-> nodes,
     names |-> {}, pair |-> None, value |-> "", answer |-> ""]

Outcome(op, host, nodegroup, node, r) ==
    [op |-> op, host |-> host, nodegroup |-> nodegroup, node |-> node,
     err |-> r.err, calls |-> r.calls,
     names |-> r.names, pair |-> r.pair, value |-> r.value, answer |-> r.answer]

\* connected: the names connect_host has been called with so far, each once, in the
\* order of their first call.  suggested: the names suggest_nodegroup_name and
\* suggest_node_name have returned so far, in order.
Init ==
    /\ hosts = EmptyDict
    /\ nodegroups = EmptyDict
    /\ nodes = EmptyDict
    /\ default_host = None
    /\ spawned = 0
    /\ server_closed = FALSE
    /\ next_nodegroup_name = 0
    /\ next_node_name = 0
    /\ last = Outcome("__init__", "", "", "", Result("none", <<>>))
    /\ roundtrip = None
    /\ threads = [t \in Threads |-> None]
    /\ connected = <<>>
    /\ suggested = [nodegroup |-> <<>>, node |-> <<>>]

\* The registries and the caller's view after a handler has run to its end.  roundtrip
\* remembers a create_node that succeeded, with the registries it started from, and
\* whether the handler run right after it was the delete_node of the same Node.
Return(op, host, nodegroup, node, r) ==
    /\ hosts' = r.hosts
    /\ nodegroups' = r.nodegroups
    /\ nodes' = r.nodes
    /\ last' = Outcome(op, host, nodegroup, node, r)
    /\ roundtrip' =
         IF op = "create_node" /\ r.err = "none"
         THEN <<[phase |-> "created", nodegroup |-> nodegroup, name |-> node,
                 classname |-> r.value, before |-> registry]>>
         ELSE IF /\ op = "delete_node" /\ r.err = "none" /\ roundtrip # None
                 /\ roundtrip[1].phase = "created" /\ roundtrip[1].name = node
              THEN <<[roundtrip[1] EXCEPT !.phase = "deleted"]>>
              ELSE None

(***************************************************************************)
(* connect_host, disconnect_host                                           *)
(***************************************************************************)
Called_with(names, name) ==
    IF \E i \in 1..Len(names) : names[i] = name THEN names ELSE Append(names, name)

\* connect_host without the test of line 112: a second connect replaces the Host.
connect_host_overwrite(hs, name, addr) == Put(hs, name, _Host(name, addr))

\* connect_host replacing the dict instead of adding to it.
connect_host_reset(hs, name, addr) == [x \in {name} |-> _Host(name, addr)]

connect_host(hs, name, addr) ==
    IF name \notin DOMAIN hs THEN Put(hs, name, _Host(name, addr)) ELSE hs

ConnectHost(name, addr) ==
    /\ Return("connect_host", name, "", "",
              [Result("none", <<>>) EXCEPT !.hosts = connect_host(hosts, name, addr)])
    /\ connected' = Called_with(connected, name)
    /\ UNCHANGED <<default_host, spawned, server_closed, counters, threads>>

\* self.hosts[name] raises KeyError for an unknown name; for a known one it is a
\* _Host, which defines neither __iter__ nor __getitem__, so the for statement
\* raises TypeError before its body or the pop after it runs.
disconnect_host(name) ==
    IF name \notin DOMAIN hosts THEN Result("NotFoundError", <<>>)
    ELSE Result("TypeError", <<>>)

DisconnectHost(name) ==
    /\ Return("disconnect_host", name, "", "", disconnect_host(name))
    /\ UNCHANGED <<default_host, spawned, server_closed, counters, threads, connected>>

(***************************************************************************)
(* default_host, close_host, close                                         *)
(***************************************************************************)
\* default_host without the test of self._default_host: every call spawns.
default_host_respawn(dh, n, hs) ==
    LET addr == rpartition(ManagerAddr, ":")[1] \o <<":", "*">>
        proc == ProcessSpawner(DefaultHostName, addr)
    IN [handle |-> <<[name |-> proc.name, addr |-> proc.addr, running |-> TRUE]>>,
        spawned |-> n + 1,
        hosts |-> connect_host(hs, proc.name, proc.addr),
        pair |-> <<proc.name, proc.addr>>]

\* The outcome of default_host: the handle kept in self._default_host, the number
\* of processes spawned so far, the Hosts and the pair returned.
default_host_(dh, n, hs) ==
    IF dh = None
    THEN LET addr == rpartition(ManagerAddr, ":")[1] \o <<":", "*">>
             proc == ProcessSpawner(DefaultHostName, addr)
         IN [handle |-> <<[name |-> proc.name, addr |-> proc.addr, running |-> TRUE]>>,
             spawned |-> n + 1,
             hosts |-> connect_host(hs, proc.name, proc.addr),
             pair |-> <<proc.name, proc.addr>>]
    ELSE [handle |-> dh, spawned |-> n, hosts |-> hs,
          pair |-> <<dh[1].name, dh[1].addr>>]

DefaultHost ==
    LET d == default_host_(default_host, spawned, hosts)
    IN /\ default_host' = d.handle
       /\ spawned' = d.spawned
       /\ Return("default_host", "", "", "",
                 [Result("none", <<>>) EXCEPT !.hosts = d.hosts, !.pair = d.pair])
       /\ connected' = IF default_host = None THEN Called_with(connected, d.pair[1])
                       ELSE connected
       /\ UNCHANGED <<server_closed, counters, threads>>

\* close_host dropping the Host and its Nodegroups once the agent has closed.
close_host_forget(name, remote_ok) ==
    IF name \notin DOMAIN hosts THEN Result("NotFoundError", <<>>)
    ELSE IF ~remote_ok THEN Result("RemoteError", <<Call("host", name, "close")>>)
    ELSE [Result("none", <<Call("host", name, "close")>>) EXCEPT
            !.hosts = Del(hosts, name),
            !.nodegroups = [g \in DOMAIN nodegroups \ hosts[name].nodegroups |->
                              nodegroups[g]]]

close_host(name, remote_ok) ==
    IF name \notin DOMAIN hosts THEN Result("NotFoundError", <<>>)
    ELSE Result(IF remote_ok THEN "none" ELSE "RemoteError", <<Call("host", name, "close")>>)

CloseHost(name) ==
    /\ \E remote_ok \in BOOLEAN : Return("close_host", name, "", "", close_host(name, remote_ok))
    /\ UNCHANGED <<default_host, spawned, server_closed, counters, threads, connected>>

\* close shutting the server down first and stopping the default Host after it.
close_server_first(dh) ==
    [handle |-> IF dh # None THEN <<[dh[1] EXCEPT !.running = FALSE]>> ELSE dh,
     calls |-> <<Call("server", "manager", "close")>>
               \o (IF dh # None THEN <<Call("process", dh[1].name, "stop")>> ELSE <<>>)]

\* The outcome of close: the handle of the default Host and, in order, the stop of
\* its process (line 145) and RPCServer.close (line 146).
close_(dh) ==
    [handle |-> IF dh # None THEN <<[dh[1] EXCEPT !.running = FALSE]>> ELSE dh,
     calls |-> (IF dh # None THEN <<Call("process", dh[1].name, "stop")>> ELSE <<>>)
               \o <<Call("server", "manager", "close")>>]

Close ==
    /\ default_host' = close_(default_host).handle
    /\ server_closed' = TRUE
    /\ Return("close", "", "", "", Result("none", close_(default_host).calls))
    /\ UNCHANGED <<spawned, counters, threads, connected>>

(***************************************************************************)
(* Nodegroups                                                              *)
(***************************************************************************)
list_hosts == [Result("none", <<>>) EXCEPT !.names = DOMAIN hosts]

ListHosts ==
    /\ Return("list_hosts", "", "", "", list_hosts)
    /\ UNCHANGED <<default_host, spawned, server_closed, counters, threads, connected>>

\* create_nodegroup without the uniqueness check of lines 165-166.
create_nodegroup_unchecked(host, name, remote_ok) ==
    IF host \notin DOMAIN hosts THEN Result("NotFoundError", <<>>)
    ELSE LET addr == <<"tcp", ":", "//">> \o hosts[host].rpc_hostname \o <<":", "*">>
             calls == <<Call("host", host, "create_nodegroup")>>
         IN IF ~remote_ok THEN Result("RemoteError", calls)
            ELSE LET bound == Resolve(addr, name)
                     ng == _NodeGroup(host, name, bound)
                 IN [Result("none", calls) EXCEPT
                       !.hosts = [hosts EXCEPT ![host].nodegroups = @ \cup {name}],
                       !.nodegroups = Put(nodegroups, name, ng),
                       !.pair = <<name, bound>>]

\* create_nodegroup without host.add_nodegroup(ng) of line 171.
create_nodegroup_unlinked(host, name, remote_ok) ==
    IF name \in DOMAIN nodegroups THEN Result("ConflictError", <<>>)
    ELSE IF host \notin DOMAIN hosts THEN Result("NotFoundError", <<>>)
    ELSE LET addr == <<"tcp", ":", "//">> \o hosts[host].rpc_hostname \o <<":", "*">>
             calls == <<Call("host", host, "create_nodegroup")>>
         IN IF ~remote_ok THEN Result("RemoteError", calls)
            ELSE LET bound == Resolve(addr, name)
                     ng == _NodeGroup(host, name, bound)
                 IN [Result("none", calls) EXCEPT
                       !.nodegroups = Put(nodegroups, name, ng),
                       !.pair = <<name, bound>>]

\* remote_ok: whether host.client.create_nodegroup returns or raises.
create_nodegroup(host, name, remote_ok) ==
    IF name \in DOMAIN nodegroups THEN Result("ConflictError", <<>>)
    ELSE IF host \notin DOMAIN hosts THEN Result("NotFoundError", <<>>)
    ELSE LET addr == <<"tcp", ":", "//">> \o hosts[host].rpc_hostname \o <<":", "*">>
             calls == <<Call("host", host, "create_nodegroup")>>
         IN IF ~remote_ok THEN Result("RemoteError", calls)
            ELSE LET bound == Resolve(addr, name)
                     ng == _NodeGroup(host, name, bound)
                 IN [Result("none", calls) EXCEPT
                       !.hosts = [hosts EXCEPT ![host].nodegroups = @ \cup {name}],
                       !.nodegroups = Put(nodegroups, name, ng),
                       !.pair = <<name, bound>>]

CreateNodegroup(host, name) ==
    /\ \E remote_ok \in BOOLEAN :
         Return("create_nodegroup", host, name, "", create_nodegroup(host, name, remote_ok))
    /\ UNCHANGED <<default_host, spawned, server_closed, counters, threads, connected>>

\* list_nodegroups reading the Host with dict.get: an unknown Host lists nothing.
list_nodegroups_lenient(host) ==
    IF host = NoneArg THEN [Result("none", <<>>) EXCEPT !.names = DOMAIN nodegroups]
    ELSE IF host \notin DOMAIN hosts THEN Result("none", <<>>)
    ELSE [Result("none", <<>>) EXCEPT !.names = hosts[host].nodegroups]

list_nodegroups(host) ==
    IF host = NoneArg THEN [Result("none", <<>>) EXCEPT !.names = DOMAIN nodegroups]
    ELSE IF host \notin DOMAIN hosts THEN Result("NotFoundError", <<>>)
    ELSE [Result("none", <<>>) EXCEPT !.names = hosts[host].nodegroups]

ListNodegroups(host) ==
    /\ Return("list_nodegroups", host, "", "", list_nodegroups(host))
    /\ UNCHANGED <<default_host, spawned, server_closed, counters, threads, connected>>

(***************************************************************************)
(* Nodes                                                                   *)
(***************************************************************************)
\* add_node without ng.add_node(name, node) of line 191.
add_node_global_only(r, nodegroup, name, classname) ==
    [r EXCEPT !.nodes = Put(r.nodes, name, _Node(nodegroup, name, classname))]

\* Lines 189-191: the Node is recorded globally and in its Nodegroup.
add_node(r, nodegroup, name, classname) ==
    LET node == _Node(nodegroup, name, classname)
    IN [r EXCEPT !.nodes = Put(r.nodes, name, node),
                 !.nodegroups = [r.nodegroups EXCEPT ![nodegroup].nodes = Put(@, name, node)]]

\* Lines 185-187: the uniqueness check and the lookup of the Nodegroup.
create_node_enter(nodegroup, name) ==
    IF name \in DOMAIN nodes THEN "ConflictError"
    ELSE IF nodegroup \notin DOMAIN nodegroups THEN "NotFoundError"
    ELSE "none"

\* create_node recording the Node before the remote call has answered.
create_node_leave_eager(nodegroup, name, classname, remote_ok) ==
    LET calls == <<Call("nodegroup", nodegroup, "create_node")>>
    IN add_node([Result(IF remote_ok THEN "none" ELSE "RemoteError", calls)
                   EXCEPT !.value = classname],
                nodegroup, name, classname)

\* Lines 188-191, from the answer of ng.client.create_node on; remote_ok: whether
\* it returns or raises.  value carries the class name for the caller's view.
create_node_leave(nodegroup, name, classname, remote_ok) ==
    LET calls == <<Call("nodegroup", nodegroup, "create_node")>>
    IN IF ~remote_ok THEN Result("RemoteError", calls)
       ELSE add_node([Result("none", calls) EXCEPT !.value = classname],
                     nodegroup, name, classname)

create_node(nodegroup, name, classname, remote_ok) ==
    IF create_node_enter(nodegroup, name) # "none"
    THEN Result(create_node_enter(nodegroup, name), <<>>)
    ELSE create_node_leave(nodegroup, name, classname, remote_ok)

CreateNode(nodegroup, name, classname) ==
    /\ \E remote_ok \in BOOLEAN :
         Return("create_node", "", nodegroup, name,
                create_node(nodegroup, name, classname, remote_ok))
    /\ UNCHANGED <<default_host, spawned, server_closed, counters, threads, connected>>

list_nodes(nodegroup) ==
    IF nodegroup = NoneArg THEN [Result("none", <<>>) EXCEPT !.names = DOMAIN nodes]
    ELSE IF nodegroup \notin DOMAIN nodegroups THEN Result("NotFoundError", <<>>)
    ELSE [Result("none", <<>>) EXCEPT !.names = DOMAIN nodegroups[nodegroup].nodes]

ListNodes(nodegroup) ==
    /\ Return("list_nodes", "", nodegroup, "", list_nodes(nodegroup))
    /\ UNCHANGED <<default_host, spawned, server_closed, counters, threads, connected>>

\* control_node without the return of line 201: the agent's answer is dropped.
control_node_no_return(name, method, remote_ok, result) ==
    IF name \notin DOMAIN nodes THEN Result("NotFoundError", <<>>)
    ELSE LET calls == <<Call("nodegroup", nodes[name].nodegroup, "control_node")>>
         IN IF ~remote_ok THEN Result("RemoteError", calls)
            ELSE [Result("none", calls) EXCEPT !.answer = result]

\* result: what the Nodegroup agent answers.
control_node(name, method, remote_ok, result) ==
    IF name \notin DOMAIN nodes THEN Result("NotFoundError", <<>>)
    ELSE LET calls == <<Call("nodegroup", nodes[name].nodegroup, "control_node")>>
         IN IF ~remote_ok THEN Result("RemoteError", calls)
            ELSE [Result("none", calls) EXCEPT !.value = result, !.answer = result]

ControlNode(name, method) ==
    /\ \E remote_ok \in BOOLEAN, result \in Results :
         Return("control_node", "", "", name, control_node(name, method, remote_ok, result))
    /\ UNCHANGED <<default_host, spawned, server_closed, counters, threads, connected>>

\* delete_node without line 207: the Node stays in its Nodegroup's map.
remove_node_global(r, nodegroup, name) ==
    [r EXCEPT !.nodes = Del(r.nodes, name)]

\* Lines 206-207: del self.nodes[name]; ng.delete_node(name).
remove_node(r, nodegroup, name) ==
    [r EXCEPT !.nodes = Del(r.nodes, name),
              !.nodegroups = [r.nodegroups EXCEPT ![nodegroup].nodes = Del(@, name)]]

delete_node(name, remote_ok) ==
    IF name \notin DOMAIN nodes THEN Result("NotFoundError", <<>>)
    ELSE LET ng == nodes[name].nodegroup
             calls == <<Call("nodegroup", ng, "delete_node")>>
         IN IF ~remote_ok THEN Result("RemoteError", calls)
            ELSE remove_node(Result("none", calls), ng, name)

DeleteNode(name) ==
    /\ \E remote_ok \in BOOLEAN : Return("delete_node", "", "", name, delete_node(name, remote_ok))
    /\ UNCHANGED <<default_host, spawned, server_closed, counters, threads, connected>>

(***************************************************************************)
(* suggest_nodegroup_name, suggest_node_name                               *)
(***************************************************************************)
\* '<prefix>%d' % k
Format(prefix, k) == prefix \o ToString(k)

\* suggest_nodegroup_name without line 211: the counter stays.
suggest_nodegroup_name_stuck(k) == [name |-> Format("nodegroup-", k), next |-> k]

\* The name returned for counter k, and the counter afterwards.
suggest_nodegroup_name(k) == [name |-> Format("nodegroup-", k), next |-> k + 1]

suggest_node_name(k) == [name |-> Format("node-", k), next |-> k + 1]

SuggestNodegroupName ==
    /\ next_nodegroup_name < MaxSuggest
    /\ LET r == suggest_nodegroup_name(next_nodegroup_name)
       IN /\ next_nodegroup_name' = r.next
          /\ suggested' = [suggested EXCEPT !.nodegroup = Append(@, r.name)]
          /\ Return("suggest_nodegroup_name", "", "", "",
                    [Result("none", <<>>) EXCEPT !.value = r.name])
    /\ UNCHANGED <<next_node_name, default_host, spawned, server_closed, threads, connected>>

SuggestNodeName ==
    /\ next_node_name < MaxSuggest
    /\ LET r == suggest_node_name(next_node_name)
       IN /\ next_node_name' = r.next
          /\ suggested' = [suggested EXCEPT !.node = Append(@, r.name)]
          /\ Return("suggest_node_name", "", "", "",
                    [Result("none", <<>>) EXCEPT !.value = r.name])
    /\ UNCHANGED <<next_nodegroup_name, default_host, spawned, server_closed, threads, connected>>

(***************************************************************************)
(* start_all_nodes, stop_all_nodes                                         *)
(***************************************************************************)
\* The orders in which a for statement may run over the values of a dict.
Orders(S) == {s \in [1..Cardinality(S) -> S] : \A i, j \in 1..Cardinality(S) : s[i] = s[j] => i = j}

\* The for loop of start_all_nodes and stop_all_nodes over order; failing: the
\* Nodegroups whose agent raises.  The first exception leaves the loop.
broadcast(method, order, failing) ==
    LET bad == {i \in 1..Len(order) : order[i] \in failing}
        calls == [i \in 1..(IF bad = {} THEN Len(order) ELSE Min(bad)) |->
                    Call("nodegroup", order[i], method)]
    IN Result(IF bad = {} THEN "none" ELSE "RemoteError", calls)

StartAllNodes ==
    /\ \E order \in Orders(DOMAIN nodegroups), failing \in SUBSET (DOMAIN nodegroups) :
         Return("start_all_nodes", "", "", "", broadcast("start_all_nodes", order, failing))
    /\ UNCHANGED <<default_host, spawned, server_closed, counters, threads, connected>>

StopAllNodes ==
    /\ \E order \in Orders(DOMAIN nodegroups), failing \in SUBSET (DOMAIN nodegroups) :
         Return("stop_all_nodes", "", "", "", broadcast("stop_all_nodes", order, failing))
    /\ UNCHANGED <<default_host, spawned, server_closed, counters, threads, connected>>

(***************************************************************************)
(* The Manager handling one request at a time.                             *)
(***************************************************************************)
Next ==
    \/ \E name \in HostNames, addr \in Addrs : ConnectHost(name, addr)
    \/ \E name \in HostNames : DisconnectHost(name)
    \/ DefaultHost
    \/ \E name \in HostNames : CloseHost(name)
    \/ Close
    \/ ListHosts
    \/ \E host \in HostNames, name \in NodegroupNames : CreateNodegroup(host, name)
    \/ \E host \in HostNames \cup {NoneArg} : ListNodegroups(host)
    \/ \E nodegroup \in NodegroupNames, name \in NodeNames, classname \in ClassNames :
         CreateNode(nodegroup, name, classname)
    \/ \E nodegroup \in NodegroupNames \cup {NoneArg} : ListNodes(nodegroup)
    \/ \E name \in NodeNames, method \in Methods : ControlNode(name, method)
    \/ \E name \in NodeNames : DeleteNode(name)
    \/ StartAllNodes
    \/ StopAllNodes

Spec == Init /\ [][Next]_vars

(***************************************************************************)
(* The Manager handling create_node requests on several threads, as a      *)
(* dispatcher with bounded concurrency does: a handler runs up to its      *)
(* remote call, which blocks, and goes on when the call has answered.      *)
(* threads[t] holds the arguments of the handler thread t has blocked in.  *)
(***************************************************************************)
\* Lines 185-188: the checks, then the remote call is sent.
CreateNodeCall(t, nodegroup, name, classname) ==
    /\ threads[t] = None
    /\ IF create_node_enter(nodegroup, name) # "none"
       THEN /\ Return("create_node", "", nodegroup, name,
                      Result(create_node_enter(nodegroup, name), <<>>))
            /\ UNCHANGED threads
       ELSE /\ threads' = [threads EXCEPT ![t] =
                 <<[nodegroup |-> nodegroup, name |-> name, classname |-> classname]>>]
            /\ UNCHANGED <<hosts, nodegroups, nodes, last, roundtrip>>
    /\ UNCHANGED <<default_host, spawned, server_closed, counters, connected>>

\* Lines 188-191: the remote call answers and the handler runs to its end.
CreateNodeReturn(t) ==
    /\ threads[t] # None
    /\ \E remote_ok \in BOOLEAN :
         Return("create_node", "", threads[t][1].nodegroup, threads[t][1].name,
                create_node_leave(threads[t][1].nodegroup, threads[t][1].name,
                                  threads[t][1].classname, remote_ok))
    /\ threads' = [threads EXCEPT ![t] = None]
    /\ UNCHANGED <<default_host, spawned, server_closed, counters, connected>>

NextConcurrent ==
    \/ \E name \in HostNames, addr \in Addrs : ConnectHost(name, addr)
    \/ \E host \in HostNames, name \in NodegroupNames : CreateNodegroup(host, name)
    \/ \E t \in Threads, nodegroup \in NodegroupNames, name \in NodeNames,
          classname \in ClassNames : CreateNodeCall(t, nodegroup, name, classname)
    \/ \E t \in Threads : CreateNodeReturn(t)

SpecConcurrent == Init /\ [][NextConcurrent]_vars

(***************************************************************************)
(* The Manager handing out names while Nodegroups and Nodes are created    *)
(* and deleted under names the callers choose.                             *)
(***************************************************************************)
NextNaming ==
    \/ \E name \in HostNames, addr \in Addrs : ConnectHost(name, addr)
    \/ \E host \in HostNames, name \in NodegroupNames : CreateNodegroup(host, name)
    \/ \E nodegroup \in NodegroupNames, name \in NodeNames, classname \in ClassNames :
         CreateNode(nodegroup, name, classname)
    \/ \E name \in NodeNames : DeleteNode(name)
    \/ SuggestNodegroupName
    \/ SuggestNodeName

SpecNaming == Init /\ [][NextNaming]_vars

(***************************************************************************)
(* The claims.                                                             *)
(***************************************************************************)
Called(r) == {r.calls[i].agent : i \in 1..Len(r.calls)}

OwnedBy(h) == {g \in DOMAIN nodegroups : nodegroups[g].host = h}

\* C1 (as claimed): disconnect_host(h) of a connected Host h completes without an
\* error, and afterwards h is not a registered Host and no Nodegroup that h owned
\* is a registered Nodegroup.
C1_DisconnectRemovesHostAndNodegroups ==
    [][\A h \in DOMAIN hosts :
         (last'.op = "disconnect_host" /\ last'.host = h)
           => /\ last'.err = "none"
              /\ h \notin DOMAIN hosts'
              /\ OwnedBy(h) \cap DOMAIN nodegroups' = {}]_vars

\* C2 (as claimed): after disconnect_host(h) of a connected Host h no Node of a
\* Nodegroup that h owned is a registered Node.
C2_DisconnectRemovesNodes ==
    [][\A h \in DOMAIN hosts :
         (last'.op = "disconnect_host" /\ last'.host = h)
           => \A n \in DOMAIN nodes :
                nodes[n].nodegroup \in OwnedBy(h) => n \notin DOMAIN nodes']_vars

\* C3 (as claimed): start_all_nodes and stop_all_nodes issue their remote call to
\* every registered Nodegroup, whichever of the calls raise.
C3_BroadcastReachesEveryNodegroup ==
    last.op \in {"start_all_nodes", "stop_all_nodes"} => Called(last) = DOMAIN nodegroups

\* C4: a create_nodegroup, create_node or delete_node whose remote call raises
\* leaves the Host, Nodegroup and Node registries, with the per-Host and
\* per-Nodegroup maps in them, exactly as they were.
C4_RemoteFailureLeavesRegistry ==
    [][(last'.op \in {"create_nodegroup", "create_node", "delete_node"}
          /\ last'.err = "RemoteError")
         => UNCHANGED registry]_vars

C4_Witness ==
    /\ last.op = "create_node" /\ last.err = "RemoteError"
    /\ Len(last.calls) = 1
    /\ last.nodegroup \in DOMAIN nodegroups
    /\ last.node \notin DOMAIN nodes

\* C5: create_nodegroup with the name of a registered Nodegroup (on whichever Host)
\* and create_node with the name of a registered Node raise ConflictError, issue no
\* remote call and leave the three registries as they were.
C5_DuplicateNameIsConflict ==
    [][(\/ last'.op = "create_nodegroup" /\ last'.nodegroup \in DOMAIN nodegroups
        \/ last'.op = "create_node" /\ last'.node \in DOMAIN nodes)
         => /\ last'.err = "ConflictError"
            /\ last'.calls = <<>>
            /\ UNCHANGED registry]_vars

C5_Witness ==
    /\ last.op = "create_nodegroup" /\ last.err = "ConflictError"
    /\ last.host \in DOMAIN hosts
    /\ nodegroups[last.nodegroup].host # last.host

\* A handler run that names a Host, Nodegroup or Node absent from the registry it
\* started from.
NamesAbsent ==
    \/ /\ last'.op \in {"disconnect_host", "close_host", "create_nodegroup", "list_nodegroups"}
       /\ last'.host # NoneArg
       /\ last'.host \notin DOMAIN hosts
    \/ /\ last'.op \in {"create_node", "list_nodes"}
       /\ last'.nodegroup # NoneArg
       /\ last'.nodegroup \notin DOMAIN nodegroups
    \/ /\ last'.op \in {"control_node", "delete_node"}
       /\ last'.node \notin DOMAIN nodes

\* A create whose new name is already registered.
NamesTaken ==
    \/ last'.op = "create_nodegroup" /\ last'.nodegroup \in DOMAIN nodegroups
    \/ last'.op = "create_node" /\ last'.node \in DOMAIN nodes

\* C6 (as claimed): every operation that names an absent Host, Nodegroup or Node
\* raises NotFoundError, issues no remote call and leaves the registry unchanged.
C6_AbsentNameIsNotFound ==
    [][NamesAbsent => /\ last'.err = "NotFoundError"
                      /\ last'.calls = <<>>
                      /\ UNCHANGED registry]_vars

\* C6 (amended): every operation that names an absent Host, Nodegroup or Node
\* raises before any remote call and leaves the registry unchanged; the error is
\* NotFoundError, except that a create_nodegroup or create_node whose new name is
\* already registered raises ConflictError, its uniqueness check coming first.
C6_AbsentNameFailsBeforeRemoteCall ==
    [][NamesAbsent => /\ last'.err = IF NamesTaken THEN "ConflictError" ELSE "NotFoundError"
                      /\ last'.calls = <<>>
                      /\ UNCHANGED registry]_vars

C6_Witness ==
    /\ last.op = "create_nodegroup" /\ last.err = "ConflictError"
    /\ last.host \notin DOMAIN hosts
    /\ last.calls = <<>>

InFlight(name) == {t \in Threads : threads[t] # None /\ threads[t][1].name = name}

\* C7 (as claimed): of the create_node calls with one name that are handled
\* concurrently at most one passes the uniqueness check and has its remote
\* create_node issued, and the Node registry agrees with the Nodegroups' maps.
C7_CreateNodeCheckAndRegisterAtomic ==
    /\ \A name \in NodeNames : Cardinality(InFlight(name)) <= 1
    /\ \A g \in DOMAIN nodegroups : \A n \in DOMAIN nodegroups[g].nodes :
         n \in DOMAIN nodes /\ nodes[n].nodegroup = g

\* C8: the default Host is spawned at most once: the first default_host spawns one
\* process, and every default_host returns the name and address of that process,
\* which no handler changes, without spawning again.
C8_DefaultHostSpawnedOnce ==
    [][/\ spawned' <= 1
       /\ default_host # None
            => /\ spawned' = spawned
               /\ default_host' # None
               /\ default_host'[1].name = default_host[1].name
               /\ default_host'[1].addr = default_host[1].addr
       /\ last'.op = "default_host"
            => /\ default_host' # None
               /\ last'.pair = <<default_host'[1].name, default_host'[1].addr>>
               /\ default_host = None => spawned' = spawned + 1]_vars

\* A default_host after close: a later call, the first one leaves the process running.
C8_Witness ==
    /\ last.op = "default_host"
    /\ default_host # None /\ ~default_host[1].running
    /\ spawned = 1

\* C9 (as claimed): the first default_host returns the name and the address of a
\* Host that is then registered under that name with that address.
C9_DefaultHostIsConnected ==
    [][(last'.op = "default_host" /\ default_host = None)
         => /\ last'.pair[1] \in DOMAIN hosts'
            /\ hosts'[last'.pair[1]].rpc_address = last'.pair[2]]_vars

\* C10: after a create_node that succeeds and a delete_node of that Node that
\* succeeds right after it, the Node is in neither list_nodes() nor list_nodes(ng),
\* the registries are those the create_node started from, and the same create_node
\* succeeds again when the remote call does.
C10_CreateDeleteRoundTrip ==
    (roundtrip # None /\ roundtrip[1].phase = "deleted")
      => LET rt == roundtrip[1]
         IN /\ rt.name \notin list_nodes(NoneArg).names
            /\ rt.name \notin list_nodes(rt.nodegroup).names
            /\ registry = rt.before
            /\ create_node(rt.nodegroup, rt.name, rt.classname, TRUE).err = "none"

C10_Witness ==
    /\ roundtrip # None /\ roundtrip[1].phase = "deleted"
    /\ last.op = "delete_node" /\ last.err = "none"
    /\ DOMAIN nodegroups[roundtrip[1].nodegroup].nodes # {}

\* C11: connect_host with the name of a connected Host, at the same or at another
\* address, raises nothing and leaves the Hosts as they were, the Host keeping its
\* address and its Nodegroups.
C11_ConnectHostIdempotent ==
    [][(last'.op = "connect_host" /\ last'.host \in DOMAIN hosts)
         => /\ last'.err = "none"
            /\ hosts' = hosts]_vars

\* A connect_host of a Host that owns a Nodegroup and is registered at an address
\* other than every address connect_host is called with.
C11_Witness ==
    /\ last.op = "connect_host" /\ last.err = "none"
    /\ last.host \in DOMAIN hosts
    /\ hosts[last.host].rpc_address \notin Addrs
    /\ hosts[last.host].nodegroups # {}

\* C12: list_hosts returns exactly the set of the names connect_host has been
\* called with so far, in whichever order the calls came.
C12_ListHostsIsConnectedSet ==
    last.op = "list_hosts" => last.names = {connected[i] : i \in 1..Len(connected)}

C12_Witness ==
    /\ last.op = "list_hosts"
    /\ Len(connected) = 2
    /\ connected[1] = "h1"

Matches(prefix, name) == \E k \in 0..MaxSuggest : Format(prefix, k) = name

\* The integer of a name '<prefix><k>'.
Index(prefix, name) == CHOOSE k \in 0..MaxSuggest : Format(prefix, k) = name

Increasing(prefix, names) ==
    /\ \A i \in 1..Len(names) : Matches(prefix, names[i])
    /\ \A i, j \in 1..Len(names) :
         i < j => /\ names[i] # names[j]
                  /\ Index(prefix, names[i]) < Index(prefix, names[j])

\* C13: the names suggest_nodegroup_name has returned are distinct names
\* 'nodegroup-<k>' with k strictly increasing in the order of the calls, and those
\* of suggest_node_name distinct names 'node-<k>' with k strictly increasing,
\* whichever other handlers ran in between.
C13_SuggestedNamesIncrease ==
    /\ Increasing("nodegroup-", suggested.nodegroup)
    /\ Increasing("node-", suggested.node)

C13_Witness ==
    /\ Len(suggested.nodegroup) = 2
    /\ Len(suggested.node) = 2
    /\ DOMAIN nodes # {}
    /\ last.op = "suggest_nodegroup_name"

\* C14 (as claimed): the name suggest_nodegroup_name returns is not the name of a
\* registered Nodegroup, and the name suggest_node_name returns is not the name of
\* a registered Node.
C14_SuggestedNameIsUnregistered ==
    /\ last.op = "suggest_nodegroup_name" => last.value \notin DOMAIN nodegroups
    /\ last.op = "suggest_node_name" => last.value \notin DOMAIN nodes

\* C15: close stops the process of the default Host when one was spawned, and
\* does so before it shuts the Manager's server down; when none was spawned it
\* only shuts the server down.  When close has returned no process spawned for
\* the default Host is running.
C15_CloseStopsDefaultHostFirst ==
    last.op = "close"
      => /\ server_closed
         /\ default_host # None => ~default_host[1].running
         /\ last.calls = IF spawned > 0
                         THEN <<Call("process", DefaultHostName, "stop"),
                                Call("server", "manager", "close")>>
                         ELSE <<Call("server", "manager", "close")>>

C15_Witness ==
    /\ last.op = "close"
    /\ spawned = 1
    /\ Len(last.calls) = 2
    /\ DOMAIN nodegroups # {}

\* C16: control_node of a registered Node issues one remote control_node call, to
\* the agent of the Nodegroup that owns the Node and to no other; it returns what
\* that agent answered, unchanged, and leaves the three registries as they were.
C16_ControlNodeForwards ==
    [][(last'.op = "control_node" /\ last'.node \in DOMAIN nodes)
         => /\ last'.calls =
                 <<Call("nodegroup", nodes[last'.node].nodegroup, "control_node")>>
            /\ last'.err \in {"none", "RemoteError"}
            /\ last'.err = "none" => (last'.answer \in Results /\ last'.value = last'.answer)
            /\ UNCHANGED registry]_vars

C16_Witness ==
    /\ last.op = "control_node" /\ last.err = "none"
    /\ last.value \in Results
    /\ Cardinality(DOMAIN nodegroups) = 2

\* C17: in every state each Host's recorded Nodegroups are the
\* registered Nodegroups it owns, every registered Nodegroup's owner is a
\* connected Host, no Nodegroup name is recorded by two Hosts, and
\* list_nodegroups() is the union of list_nodegroups(h) over the connected Hosts.
C17_HostsAgreeWithNodegroups ==
    /\ \A h \in DOMAIN hosts : hosts[h].nodegroups = OwnedBy(h)
    /\ \A g \in DOMAIN nodegroups : nodegroups[g].host \in DOMAIN hosts
    /\ \A h1, h2 \in DOMAIN hosts :
         h1 # h2 => hosts[h1].nodegroups \cap hosts[h2].nodegroups = {}
    /\ list_nodegroups(NoneArg).names =
         UNION {list_nodegroups(h).names : h \in DOMAIN hosts}

\* C18: in every state every registered Node references a registered
\* Nodegroup and is in the membership map of that Nodegroup and of no other,
\* every Node in a membership map is registered, and list_nodes() is the union
\* of list_nodes(g) over the registered Nodegroups.
C18_NodesAgreeWithNodegroups ==
    /\ \A n \in DOMAIN nodes :
         /\ nodes[n].nodegroup \in DOMAIN nodegroups
         /\ {g \in DOMAIN nodegroups : n \in DOMAIN nodegroups[g].nodes}
              = {nodes[n].nodegroup}
    /\ \A g \in DOMAIN nodegroups : DOMAIN nodegroups[g].nodes \subseteq DOMAIN nodes
    /\ list_nodes(NoneArg).names =
         UNION {list_nodes(g).names : g \in DOMAIN nodegroups}

\* Two Hosts that each own a Nodegroup.
C17_Witness ==
    /\ Cardinality(DOMAIN hosts) = 2
    /\ \A h \in DOMAIN hosts : Cardinality(hosts[h].nodegroups) = 1
    /\ last.op = "create_nodegroup" /\ last.err = "none"

\* Two Nodegroups that each hold a Node.
C18_Witness ==
    /\ Cardinality(DOMAIN nodegroups) = 2
    /\ \A g \in DOMAIN nodegroups : Cardinality(DOMAIN nodegroups[g].nodes) = 1
    /\ last.op = "create_node" /\ last.err = "none"

\* C19: a registered Nodegroup stays registered, with the same owning Host and
\* the same stored address, across every handler other than a disconnect_host
\* of its owning Host.
C19_NodegroupKeepsOwner ==
    [][\A g \in DOMAIN nodegroups :
         ~(last'.op = "disconnect_host" /\ last'.host = nodegroups[g].host)
           => /\ g \in DOMAIN nodegroups'
              /\ nodegroups'[g].host = nodegroups[g].host
              /\ nodegroups'[g].rpc_address = nodegroups[g].rpc_address]_vars

\* A create_nodegroup under the name of a Nodegroup that another Host owns.
C19_Witness ==
    /\ last.op = "create_nodegroup" /\ last.err = "ConflictError"
    /\ last.nodegroup \in DOMAIN nodegroups
    /\ last.host \in DOMAIN hosts
    /\ nodegroups[last.nodegroup].host # last.host
    /\ DOMAIN nodegroups[last.nodegroup].nodes # {}

\* C20: close_host of a connected Host sends close to that Host's agent and to no
\* other, and changes nothing the Manager records: afterwards list_hosts() still
\* has the Host, list_nodegroups() its Nodegroups and list_nodes() their Nodes.
C20_CloseHostKeepsBookkeeping ==
    [][\A name \in DOMAIN hosts :
         (last'.op = "close_host" /\ last'.host = name)
           => /\ last'.calls = <<Call("host", name, "close")>>
              /\ UNCHANGED <<registry, default_host, spawned, server_closed>>
              /\ name \in (list_hosts.names)'
              /\ \A g \in hosts[name].nodegroups :
                   /\ g \in (list_nodegroups(NoneArg).names)'
                   /\ g \in (list_nodegroups(name).names)'
                   /\ DOMAIN nodegroups[g].nodes \subseteq (list_nodes(NoneArg).names)'
                   /\ DOMAIN nodegroups[g].nodes = (list_nodes(g).names)']_vars

\* The agent of a Host that owns a Nodegroup with a Node has closed.
C20_Witness ==
    /\ last.op = "close_host" /\ last.err = "none"
    /\ last.host \in DOMAIN hosts
    /\ \E g \in hosts[last.host].nodegroups : DOMAIN nodegroups[g].nodes # {}

====
